---- MODULE Spec2Model ----
(***************************************************************************)
(* Model of search.py: the extraction pipeline extract_data_to_csv (split  *)
(* a result dump into numbered chunks, pull the fields out of each chunk   *)
(* with regular expressions, validate the email, normalise the follower    *)
(* count, sort, write) and the part of search_and_save_pages that          *)
(* assembles the dump.                                                     *)
(*                                                                         *)
(* Text is modelled as TLA+ strings, i.e. sequences of characters; every   *)
(* regular expression of the source is an operator that scans the string   *)
(* the way Python's backtracking matcher does (leftmost match, greedy or   *)
(* lazy quantifiers).  An optional value (Python None or a value) is the   *)
(* empty tuple or a one-element tuple.                                     *)
(***************************************************************************)
EXTENDS Integers, Sequences, FiniteSets, TLC

VARIABLES pc, input_text, content, results, idx, extracted_items, outfile,
          raised, page, result_count, item_numbers, arg, ret

vars == <<pc, input_text, content, results, idx, extracted_items, outfile,
          raised, page, result_count, item_numbers, arg, ret>>

-----------------------------------------------------------------------------
(* Optional values *)

None == <<>>

Some(v) == <<v>>

(* Characters and character classes of the patterns *)

Ch(s, i) == IF i >= 1 /\ i <= Len(s) THEN SubSeq(s, i, i) ELSE ""

DigitChars == "0123456789"

LowerChars == "abcdefghijklmnopqrstuvwxyz"

UpperChars == "ABCDEFGHIJKLMNOPQRSTUVWXYZ"

Digit == {Ch(DigitChars, i) : i \in 1..10}

Letter == {Ch(LowerChars, i) : i \in 1..26} \cup {Ch(UpperChars, i) : i \in 1..26}

\* \s and str.strip(): the ASCII whitespace characters a TLA+ string can hold
Space == {" ", "\t", "\n", "\r", "\f"}

\* [a-zA-Z0-9._%+-]
LocalClass == Letter \cup Digit \cup {".", "_", "%", "+", "-"}

\* [a-zA-Z0-9.-]
DomainClass == Letter \cup Digit \cup {".", "-"}

Min(S) == CHOOSE x \in S : \A y \in S : x <= y

Max(S) == CHOOSE x \in S : \A y \in S : x >= y

\* end (exclusive) of the longest run of characters of class C starting at i
RunEnd(s, i, C) ==
    IF i > Len(s) THEN i
    ELSE CHOOSE j \in i..(Len(s) + 1) :
            /\ Ch(s, j) \notin C
            /\ \A k \in i..(j - 1) : Ch(s, k) \in C

\* end (exclusive) of the longest run of characters outside class C starting at i
RunEndNot(s, i, C) ==
    IF i > Len(s) THEN i
    ELSE CHOOSE j \in i..(Len(s) + 1) :
            /\ (j = Len(s) + 1 \/ Ch(s, j) \in C)
            /\ \A k \in i..(j - 1) : Ch(s, k) \notin C

\* the literal lit stands at position i of s
At(s, i, lit) ==
    i >= 1 /\ i + Len(lit) - 1 <= Len(s) /\ SubSeq(s, i, i + Len(lit) - 1) = lit

\* Python's  lit in s
Contains(s, lit) == \E i \in 1..(Len(s) - Len(lit) + 1) : At(s, i, lit)

\* Python's  s.endswith(lit)
EndsWith(s, lit) == Len(s) >= Len(lit) /\ At(s, Len(s) - Len(lit) + 1, lit)

\* Python's  s.strip()
Strip(s) ==
    LET a == RunEnd(s, 1, Space)
        B == {j \in a..Len(s) : Ch(s, j) \notin Space}
    IN  IF B = {} THEN "" ELSE SubSeq(s, a, Max(B))

MapCh(c, from, to) ==
    IF \E i \in 1..26 : Ch(from, i) = c
    THEN Ch(to, CHOOSE i \in 1..26 : Ch(from, i) = c)
    ELSE c

\* Python's  s.lower()  and  s.upper()  on ASCII text
RECURSIVE Lower(_)
Lower(s) == IF s = "" THEN "" ELSE MapCh(Ch(s, 1), UpperChars, LowerChars) \o Lower(Tail(s))

RECURSIVE Upper(_)
Upper(s) == IF s = "" THEN "" ELSE MapCh(Ch(s, 1), LowerChars, UpperChars) \o Upper(Tail(s))

\* Python's  s.replace(c, '')  for a one-character c
RECURSIVE Remove(_, _)
Remove(s, c) ==
    IF s = "" THEN ""
    ELSE (IF Ch(s, 1) = c THEN "" ELSE Ch(s, 1)) \o Remove(Tail(s), c)

DigitVal(c) == (CHOOSE i \in 1..10 : Ch(DigitChars, i) = c) - 1

\* int() of a string of decimal digits
RECURSIVE ToInt(_)
ToInt(d) ==
    IF d = "" THEN 0
    ELSE ToInt(SubSeq(d, 1, Len(d) - 1)) * 10 + DigitVal(Ch(d, Len(d)))

-----------------------------------------------------------------------------
(* Numbers.  A Python float is modelled as an exact decimal m * 10^e, kept   *)
(* normalised (m has no trailing zero, zero is m = 0, e = 0), so that the    *)
(* products by 1000 and 1000000 do not overflow the model checker's          *)
(* integers.  Binary rounding of float is not modelled.                      *)

RECURSIVE Norm(_, _)
Norm(m, e) ==
    IF m = 0 THEN [m |-> 0, e |-> 0]
    ELSE IF m % 10 = 0 THEN Norm(m \div 10, e + 1)
    ELSE [m |-> m, e |-> e]

Zero == [m |-> 0, e |-> 0]

\* x * 10^k
Scale(x, k) == IF x.m = 0 THEN Zero ELSE [m |-> x.m, e |-> x.e + k]

RECURSIVE NDigits(_)
NDigits(n) == IF n < 10 THEN 1 ELSE 1 + NDigits(n \div 10)

RECURSIVE Pow10(_)
Pow10(k) == IF k = 0 THEN 1 ELSE 10 * Pow10(k - 1)

\* a < b for positive a, b: compare the magnitudes, then the aligned digits
PosLess(a, b) ==
    LET da == NDigits(a.m)
        db == NDigits(b.m)
    IN  IF da + a.e # db + b.e THEN da + a.e < db + b.e
        ELSE IF da >= db THEN a.m < b.m * Pow10(da - db)
        ELSE a.m * Pow10(db - da) < b.m

Sign(a) == IF a.m > 0 THEN 1 ELSE IF a.m < 0 THEN 0 - 1 ELSE 0

Negate(a) == [m |-> 0 - a.m, e |-> a.e]

\* a < b on floats
NumLess(a, b) ==
    IF Sign(a) # Sign(b) THEN Sign(a) < Sign(b)
    ELSE IF Sign(a) = 0 THEN FALSE
    ELSE IF Sign(a) = 1 THEN PosLess(a, b)
    ELSE PosLess(Negate(b), Negate(a))

\* the value of the digits ip before and fp behind the decimal point
Decimal(neg, ip, fp) ==
    IF neg THEN Negate(Norm(ToInt(ip \o fp), 0 - Len(fp)))
    ELSE Norm(ToInt(ip \o fp), 0 - Len(fp))

\* body, whose digits before the point end at d1 and whose digits behind it
\* end at d2, is a number when that is all of it and it has a digit
FloatParts(neg, body, d1, d2) ==
    IF d2 = Len(body) + 1 /\ (d1 > 1 \/ d2 > d1 + 1)
    THEN Some(Decimal(neg, SubSeq(body, 1, d1 - 1), SubSeq(body, d1 + 1, d2 - 1)))
    ELSE None

FloatDigits(neg, body, d1) ==
    FloatParts(neg, body, d1,
               IF Ch(body, d1) = "." THEN RunEnd(body, d1 + 1, Digit) ELSE d1)

FloatStripped(u) ==
    IF Ch(u, 1) \in {"-", "+"}
    THEN FloatDigits(Ch(u, 1) = "-", Tail(u), RunEnd(Tail(u), 1, Digit))
    ELSE FloatDigits(FALSE, u, RunEnd(u, 1, Digit))

\* float(t): None stands for ValueError.  The grammar is that of float() on
\* text made of digits, '.', a sign and whitespace: optional surrounding
\* whitespace, an optional sign, then digits with an optional point
\* ("12", "1.5", "1.", ".5").  Exponents, underscores, "inf" and "nan" are
\* outside the alphabets the model feeds it.
float(t) == FloatStripped(Strip(t))

\* return float(...) * 10^k inside the try; except (ValueError, TypeError):
\* return 0.  exc names the exception that leaves the function ("" when it
\* returns).
TryScale(f, k) ==
    IF f = None
    THEN [exc |-> "", val |-> Zero]
    ELSE [exc |-> "", val |-> Scale(f[1], k)]

\* the branches on the suffix, fs being the string compared
ConvertSuffix(fs) ==
    IF Contains(fs, "K") THEN TryScale(float(Remove(fs, "K")), 3)
    ELSE IF Contains(fs, "M") THEN TryScale(float(Remove(fs, "M")), 6)
    ELSE TryScale(float(fs), 0)

\* convert_to_numeric without the upper(): a lower-case suffix is not seen
convert_to_numeric_no_upper(follower_string) ==
    IF follower_string = None \/ follower_string = Some("")
    THEN [exc |-> "", val |-> Zero]
    ELSE ConvertSuffix(Strip(follower_string[1]))

\* convert_to_numeric(follower_string); the argument is None or Some(string)
convert_to_numeric(follower_string) ==
    IF follower_string = None \/ follower_string = Some("")
    THEN [exc |-> "", val |-> Zero]
    ELSE ConvertSuffix(Upper(Strip(follower_string[1])))

-----------------------------------------------------------------------------
(* validate_email *)

\* re.match(email_pattern, email) with
\* ^[a-zA-Z0-9._%+-]+@[a-zA-Z0-9.-]+\.[a-zA-Z]{2,}$ ; the final $ also
\* matches just before a newline that ends the string.
email_pattern_match(email) ==
    LET r    == RunEnd(email, 1, LocalClass)
        d    == RunEnd(email, r + 1, DomainClass)
        Ends == {Len(email) + 1} \cup
                (IF Ch(email, Len(email)) = "\n" THEN {Len(email)} ELSE {})
    IN  /\ r > 1
        /\ Ch(email, r) = "@"
        /\ \E k \in (r + 2)..(d - 1) :
              /\ Ch(email, k) = "."
              /\ LET t == RunEnd(email, k + 1, Letter)
                 IN  t >= k + 3 /\ t \in Ends

dummy_patterns == <<"example.com", "test.com", "domain.com">>

\* validate_email with the denylist compared against the email as written
validate_email_case_sensitive(email) ==
    IF email = "" THEN None
    ELSE IF ~email_pattern_match(email) THEN None
    ELSE IF \E i \in 1..Len(dummy_patterns) : Contains(email, dummy_patterns[i])
         THEN None
    ELSE Some(email)

\* validate_email(email): the email (Some) or None
validate_email(email) ==
    IF email = "" THEN None
    ELSE IF ~email_pattern_match(email) THEN None
    ELSE IF \E i \in 1..Len(dummy_patterns) : Contains(Lower(email), dummy_patterns[i])
         THEN None
    ELSE Some(email)

-----------------------------------------------------------------------------
(* The patterns of extract_data_to_csv.  A search returns None or          *)
(* Some(group), group being the text the code takes from the match.        *)

\* re.match(r'(\d+)\.', result)
number_match(result) ==
    LET r == RunEnd(result, 1, Digit)
    IN  IF r > 1 /\ Ch(result, r) = "." THEN Some(SubSeq(result, 1, r - 1)) ELSE None

\* re.search(r'^\d+\.\s*(.*?)\s*\(@', result): the digits and the period at
\* the start of the chunk, whitespace, then the shortest text without a
\* newline that is followed by optional whitespace and "(@"
name_match(result) ==
    LET r  == RunEnd(result, 1, Digit)
        a  == RunEnd(result, r + 1, Space)
        nl == RunEndNot(result, a, {"\n"})
        E  == {e \in a..nl : At(result, RunEnd(result, e, Space), "(@")}
    IN  IF r > 1 /\ Ch(result, r) = "." /\ E # {}
        THEN Some(SubSeq(result, a, Min(E) - 1))
        ELSE None

\* re.search(r'\(@([^)]+)\)', result)
username_match(result) ==
    LET P == {p \in 1..Len(result) :
                 /\ At(result, p, "(@")
                 /\ LET q == RunEndNot(result, p + 2, {")"})
                    IN  q > p + 2 /\ q <= Len(result)}
    IN  IF P = {} THEN None
        ELSE Some(SubSeq(result, Min(P) + 2, RunEndNot(result, Min(P) + 2, {")"}) - 1))

\* re.search(r'URL: (https://[^\s]+)', result)
url_match(result) ==
    LET P == {p \in 1..Len(result) :
                 /\ At(result, p, "URL: https://")
                 /\ RunEndNot(result, p + 13, Space) > p + 13}
    IN  IF P = {} THEN None
        ELSE Some(SubSeq(result, Min(P) + 5, RunEndNot(result, Min(P) + 13, Space) - 1))

\* [a-zA-Z0-9._%+-]+@[a-zA-Z0-9.-]+\.[a-zA-Z]{2,} anchored at p: the end
\* (exclusive) of the match, or 0.  The domain is greedy, so the last period
\* of the domain run that two letters follow ends it.
EmailEndAt(s, p) ==
    LET r == RunEnd(s, p, LocalClass)
        d == RunEnd(s, r + 1, DomainClass)
        K == {k \in (r + 2)..(d - 1) :
                 Ch(s, k) = "." /\ Ch(s, k + 1) \in Letter /\ Ch(s, k + 2) \in Letter}
    IN  IF r > p /\ Ch(s, r) = "@" /\ K # {}
        THEN RunEnd(s, Max(K) + 1, Letter)
        ELSE 0

\* the positions where (?:^|\s)\.{3} can put its three periods
EllipsisStarts(s) ==
    {q \in 1..Len(s) : (q = 1 \/ Ch(s, q - 1) \in Space) /\ At(s, q, "...")}

\* email_patterns[0]: the whole match (the pattern has no group)
email_search_1(result) ==
    LET P == {p \in 1..Len(result) : EmailEndAt(result, p) > 0}
    IN  IF P = {} THEN None
        ELSE Some(SubSeq(result, Min(P), EmailEndAt(result, Min(P)) - 1))

\* email_patterns[1]: group 1, the address after the ellipsis
email_search_2(result) ==
    LET Q == {q \in EllipsisStarts(result) :
                 EmailEndAt(result, RunEnd(result, q + 3, Space)) > 0}
    IN  IF Q = {} THEN None
        ELSE LET a == RunEnd(result, Min(Q) + 3, Space)
             IN  Some(SubSeq(result, a, EmailEndAt(result, a) - 1))

\* the ends (exclusive) group 1 of email_patterns[2] can have when the
\* ellipsis stands at q: a non-empty run of local-part characters followed by
\* optional whitespace and the literal gmail.com
LocalEnds(s, q) ==
    LET a == RunEnd(s, q + 3, Space)
    IN  {e \in (a + 1)..RunEnd(s, a, LocalClass) :
            At(s, RunEnd(s, e, Space), "gmail.com")}

\* email_patterns[2]: group 1, the local part (greedy: its longest end)
email_search_3(result) ==
    LET Q == {q \in EllipsisStarts(result) : LocalEnds(result, q) # {}}
    IN  IF Q = {} THEN None
        ELSE Some(SubSeq(result, RunEnd(result, Min(Q) + 3, Space),
                         Max(LocalEnds(result, Min(Q))) - 1))

\* \d+\.?\d*[KM]? matches the whole of t
CountToken(t) ==
    LET body == IF Ch(t, Len(t)) \in {"K", "M"} THEN SubSeq(t, 1, Len(t) - 1) ELSE t
        d1   == RunEnd(body, 1, Digit)
    IN  /\ d1 > 1
        /\ \/ d1 = Len(body) + 1
           \/ Ch(body, d1) = "." /\ RunEnd(body, d1 + 1, Digit) = Len(body) + 1

\* a count standing at a, whitespace and the literal word: the position
\* after the word, or 0.  The count runs to the next whitespace, which the
\* \s+ after it needs.
CountAt(s, a, word) ==
    LET e == RunEndNot(s, a, Space)
        w == RunEnd(s, e, Space)
    IN  IF CountToken(SubSeq(s, a, e - 1)) /\ w > e /\ At(s, w, word)
        THEN w + Len(word)
        ELSE 0

\* where the next count starts (after optional whitespace) when a count and
\* the word stand at a: a set of at most one position
NextCountStart(s, a, word) ==
    {RunEnd(s, n, Space) : n \in {CountAt(s, a, word)} \ {0}}

\* the text of the count standing at a
CountText(s, a) == SubSeq(s, a, RunEndNot(s, a, Space) - 1)

\* meta_stats_pattern anchored at p: the set of at most one match, a match
\* being its three groups
StatsAt(s, p) ==
    UNION { UNION { {<<CountText(s, p), CountText(s, a2), CountText(s, a3)>> :
                        x \in {n \in {CountAt(s, a3, "Posts")} : n > 0}}
                    : a3 \in NextCountStart(s, a2, "Following,") }
            : a2 \in NextCountStart(s, p, "Followers,") }

\* re.search(meta_stats_pattern, result)
meta_match(result) ==
    LET P == {p \in 1..Len(result) : Ch(result, p) \in Digit /\ StatsAt(result, p) # {}}
    IN  IF P = {} THEN None ELSE Some(CHOOSE g \in StatsAt(result, Min(P)) : TRUE)

\* the description pattern without re.DOTALL: the text stops at the end of
\* the line, where it has to meet "Meta Description:" or the end of the chunk
desc_match_one_line(result) ==
    LET P == {p \in 1..Len(result) :
                 /\ At(result, p, "Description: ")
                 /\ LET e == RunEndNot(result, p + 13, {"\n"})
                    IN  \/ e >= Len(result)
                        \/ \E x \in (p + 13)..e : At(result, x, "Meta Description:")}
        g == Min(P) + 13
        E == {e \in g..RunEndNot(result, g, {"\n"}) :
                 \/ At(result, e, "Meta Description:")
                 \/ e = Len(result) + 1
                 \/ e = Len(result) /\ Ch(result, e) = "\n"}
    IN  IF P = {} THEN None ELSE Some(SubSeq(result, g, Min(E) - 1))

\* re.search(r'Description: (.*?)(?=Meta Description:|$)', result, re.DOTALL):
\* from the first "Description: " the shortest text up to the next
\* "Meta Description:" or the end of the chunk
desc_match(result) ==
    LET P    == {p \in 1..Len(result) : At(result, p, "Description: ")}
        g    == Min(P) + 13
        Ends == {e \in g..(Len(result) + 1) :
                    \/ At(result, e, "Meta Description:")
                    \/ e = Len(result) + 1
                    \/ e = Len(result) /\ Ch(result, e) = "\n"}
    IN  IF P = {} THEN None ELSE Some(SubSeq(result, g, Min(Ends) - 1))

-----------------------------------------------------------------------------
(* The body of the loop over the chunks (one iteration).  Every field      *)
(* extraction yields [exc, val]: exc names the exception the statements    *)
(* of that field raise ("" when they raise none), val is the value stored  *)
(* in data.                                                                *)

email_patterns == <<1, 2, 3>>

\* re.search(pattern, result) for the pattern-th entry of email_patterns
email_search(pattern, result) ==
    IF pattern = 1 THEN email_search_1(result)
    ELSE IF pattern = 2 THEN email_search_2(result)
    ELSE email_search_3(result)

\* the first pattern of email_patterns that matches, 0 when none does
first_email_pattern(result) ==
    LET M == {i \in 1..Len(email_patterns) : email_search(email_patterns[i], result) # None}
    IN  IF M = {} THEN 0 ELSE Min(M)

\* the local variable email as it is handed to validate_email: the group of
\* the match, with gmail.com appended when it does not end with it and the
\* chunk contains it
AppendGmail(email, result) ==
    IF ~EndsWith(email, "gmail.com") /\ Contains(result, "gmail.com")
    THEN email \o "gmail.com"
    ELSE email

email_candidate(pattern, result) == AppendGmail(email_search(pattern, result)[1], result)

\* the body of the loop over email_patterns, pattern being the first one
\* that matches
EmailOf(pattern, result) ==
    IF pattern # 0
    THEN [exc |-> "", val |-> validate_email(email_candidate(pattern, result))]
    ELSE [exc |-> "", val |-> None]

email_field(result) == EmailOf(first_email_pattern(result), result)

\* the longest digit string int() converts (the interpreter's default
\* limit, sys.int_info.default_max_str_digits); a longer one raises ValueError
int_max_str_digits == 4300

\* int(digits)
int(digits) ==
    IF Len(digits) > int_max_str_digits
    THEN [exc |-> "ValueError", val |-> None]
    ELSE [exc |-> "", val |-> Some(ToInt(digits))]

\* the statements of the number, m being number_match
NumberOf(m) == IF m # None THEN int(m[1]) ELSE [exc |-> "", val |-> None]

number_field(result) == NumberOf(number_match(result))

name_field(result) ==
    IF name_match(result) # None
    THEN [exc |-> "", val |-> Some(Strip(name_match(result)[1]))]
    ELSE [exc |-> "", val |-> None]

username_field(result) ==
    IF username_match(result) # None
    THEN [exc |-> "", val |-> username_match(result)]
    ELSE [exc |-> "", val |-> None]

url_field(result) ==
    IF url_match(result) # None
    THEN [exc |-> "", val |-> url_match(result)]
    ELSE [exc |-> "", val |-> None]

\* the statements under "if meta_match:", m being the match and n the
\* result of convert_to_numeric(followers)
StatsOf(m, n) ==
    [exc |-> n.exc,
     val |-> [followers |-> Some(m[1]), following |-> Some(m[2]),
              posts |-> Some(m[3]), follower_count_numeric |-> n.val]]

StatsIf(m) ==
    IF m # None
    THEN StatsOf(m[1], convert_to_numeric(Some(m[1][1])))
    ELSE [exc |-> "",
          val |-> [followers |-> None, following |-> None, posts |-> None,
                   follower_count_numeric |-> Zero]]

\* followers, following, posts and follower_count_numeric
stats_field(result) == StatsIf(meta_match(result))

description_field(result) ==
    IF desc_match(result) # None
    THEN [exc |-> "", val |-> Some(Strip(desc_match(result)[1]))]
    ELSE [exc |-> "", val |-> None]

\* the first exception among the fields, "" when there is none
FirstExc(f) ==
    IF \A i \in 1..Len(f) : f[i].exc = "" THEN ""
    ELSE f[CHOOSE i \in 1..Len(f) : f[i].exc # "" /\ \A j \in 1..(i - 1) : f[j].exc = ""].exc

DataOf(f) ==
    [exc  |-> FirstExc(f),
     data |-> [number |-> f[1].val, name |-> f[2].val, username |-> f[3].val,
               url |-> f[4].val, email |-> f[5].val,
               followers |-> f[6].val.followers, following |-> f[6].val.following,
               posts |-> f[6].val.posts, description |-> f[7].val,
               follower_count_numeric |-> f[6].val.follower_count_numeric]]

\* the statements after those of the number, n being the number: none of
\* them runs when int() raised
AfterNumber(n, result) ==
    IF n.exc # ""
    THEN DataOf(<<n>> \o [i \in 1..4 |-> [exc |-> "", val |-> None]]
                \o <<StatsIf(None), [exc |-> "", val |-> None]>>)
    ELSE DataOf(<<n, name_field(result), username_field(result),
                  url_field(result), email_field(result), stats_field(result),
                  description_field(result)>>)

\* one iteration for a chunk that is not blank: the record data and the
\* first exception raised on the way ("" when there is none)
ExtractData(result) == AfterNumber(number_field(result), result)

\* re.split(r'\n(?=\d+\.)', content): a newline is a separator when digits
\* and a period follow it
IsSeparator(s, i) ==
    Ch(s, i) = "\n" /\ LET r == RunEnd(s, i + 1, Digit) IN r > i + 1 /\ Ch(s, r) = "."

\* the pieces of s from start on, cut at the separators seps
RECURSIVE SplitAt(_, _, _)
SplitAt(s, start, seps) ==
    IF seps = {} THEN <<SubSeq(s, start, Len(s))>>
    ELSE <<SubSeq(s, start, Min(seps) - 1)>> \o SplitAt(s, Min(seps) + 1, seps \ {Min(seps)})

Split(s) == SplitAt(s, 1, {i \in 1..Len(s) : IsSeparator(s, i)})

-----------------------------------------------------------------------------
(* extracted_items.sort(key=lambda x: x["follower_count_numeric"],         *)
(* reverse=True).  list.sort is stable; with reverse=True it reverses the  *)
(* list, sorts it stably in ascending order and reverses it again, which   *)
(* keeps equal keys in their original order.                               *)

Reverse(s) == [i \in 1..Len(s) |-> s[Len(s) + 1 - i]]

\* insert x behind every element whose key is not greater than its own
InsertStable(sorted, x) ==
    LET n == Cardinality({i \in 1..Len(sorted) :
                 ~NumLess(x.follower_count_numeric, sorted[i].follower_count_numeric)})
    IN  SubSeq(sorted, 1, n) \o <<x>> \o SubSeq(sorted, n + 1, Len(sorted))

\* stable ascending sort by follower_count_numeric
RECURSIVE SortAscending(_)
SortAscending(items) ==
    IF items = <<>> THEN <<>>
    ELSE InsertStable(SortAscending(SubSeq(items, 1, Len(items) - 1)), items[Len(items)])

\* the sort without reverse=True
sort_ascending(items) == SortAscending(items)

\* a descending order obtained by reversing the ascending one
sort_then_reverse(items) == Reverse(SortAscending(items))

sort_reverse(items) == Reverse(SortAscending(Reverse(items)))

fieldnames == <<"number", "name", "username", "url", "email", "followers",
                "following", "posts", "description", "follower_count_numeric">>

\* writer.writerow(data): the cells of the row, in the order of fieldnames
\* (the rendering of the cells as CSV text is not modelled)
Row(data) == [k \in 1..Len(fieldnames) |-> data[fieldnames[k]]]

-----------------------------------------------------------------------------
(* The text search_and_save_pages writes for one page of results *)

\* str(n) for n >= 0
RECURSIVE ToStr(_)
ToStr(n) ==
    IF n < 10 THEN Ch(DigitChars, n + 1)
    ELSE ToStr(n \div 10) \o Ch(DigitChars, (n % 10) + 1)

\* "=" * 80
RECURSIVE Repeat(_, _)
Repeat(c, n) ==
    IF n = 0 THEN ""
    ELSE IF n % 2 = 0 THEN Repeat(c, n \div 2) \o Repeat(c, n \div 2)
    ELSE c \o Repeat(c, n - 1)

RuleWidth == 80

\* d.get(key, default) for an optional value
Get(v, default) == IF v = None THEN default ELSE v[1]

\* extract_instagram_data(item), called when item has a pagemap: None or
\* Some(line)
extract_instagram_data(item) ==
    IF item.pagemap[1].person # None
    THEN LET person == item.pagemap[1].person[1]
         IN  Some(Get(person.followers, "N/A") \o " Followers, " \o
                  Get(person.following, "N/A") \o " Following, " \o
                  Get(person.interactioncount, "N/A") \o " Posts")
    ELSE None

\* the lines appended to page_content for one item
ItemText(global_item_number, item) ==
    ToStr(global_item_number) \o ". " \o Get(item.title, "No Title") \o "\n"
    \o "   URL: " \o Get(item.link, "No URL") \o "\n"
    \o (IF item.snippet # None THEN "   Description: " \o item.snippet[1] \o "\n" ELSE "")
    \o (IF item.pagemap # None
        THEN (IF extract_instagram_data(item) # None
              THEN "   " \o extract_instagram_data(item)[1] \o "\n" ELSE "")
             \o (IF item.pagemap[1].og_description # None
                 THEN "   Meta Description: " \o item.pagemap[1].og_description[1] \o "\n"
                 ELSE "")
        ELSE "")
    \o "\n"

\* the number of the i-th item of a page, counted within the page only
global_item_number_per_page(count, i) == i

\* global_item_number = result_count + i
global_item_number(count, i) == count + i

RECURSIVE ItemsText(_, _, _)
ItemsText(items, count, i) ==
    IF i > Len(items) THEN ""
    ELSE ItemText(global_item_number(count, i), items[i]) \o ItemsText(items, count, i + 1)

\* page_content for the response search_results; items is None when the
\* response has no 'items' key
PageContent(pg, items, count) ==
    "Page " \o ToStr(pg) \o " Results:\n" \o Repeat("=", RuleWidth) \o "\n\n"
    \o (IF items # None THEN ItemsText(items[1], count, 1)
        ELSE "No results found for this page.\n\n")

-----------------------------------------------------------------------------
(* Inputs *)

MaxChunks == 3

NumPages == 2

MaxItems == 2

MaxCountLen == 4

MaxParts == 4

search_query == "fitness"

\* a listing in the documented layout: numbered name/handle line, URL line,
\* Description line, stats line, Meta Description line
Layout(t) ==
    ToStr(t.n) \o ". " \o t.name \o " (@" \o t.handle \o ")\n"
    \o "   URL: " \o t.url \o "\n"
    \o "   Description: " \o t.desc \o "\n"
    \o "   " \o t.followers \o " Followers, " \o t.following \o " Following, "
    \o t.posts \o " Posts\n"
    \o "   Meta Description: " \o t.meta

\* well-formed listings, each with the value of its follower count
LayoutCases ==
    { [n |-> 1, name |-> "Jane Doe", handle |-> "janedoe",
       url |-> "https://instagram.com/janedoe", desc |-> "Lifestyle blogger",
       followers |-> "10K", following |-> "200", posts |-> "150", meta |-> "blog",
       numeric |-> [m |-> 1, e |-> 4]],
      [n |-> 2, name |-> "B", handle |-> "b_2", url |-> "https://x.co/b",
       desc |-> "Chef, 2 books", followers |-> "2M", following |-> "1.5K", posts |-> "12",
       meta |-> "food", numeric |-> [m |-> 2, e |-> 6]],
      [n |-> 3, name |-> "C", handle |-> "c", url |-> "https://x.co/c",
       desc |-> "Tech", followers |-> "500K", following |-> "7", posts |-> "3",
       meta |-> "tech", numeric |-> [m |-> 5, e |-> 5]],
      [n |-> 3, name |-> "D", handle |-> "d", url |-> "https://x.co/d",
       desc |-> "Travel", followers |-> "0.5M", following |-> "7", posts |-> "3",
       meta |-> "trips", numeric |-> [m |-> 5, e |-> 5]] }

\* listings that are not well formed: no handle and no counts the stats
\* pattern accepts; no URL, no stats line, no Meta Description
OtherChunks ==
    { "4. No Title\n   URL: No URL\n   N/A Followers, N/A Following, N/A Posts",
      "5. E (@e)\n   Description: mail jane@yahoo.com" }

ChunkMenu == {Layout(t) : t \in LayoutCases} \cup OtherChunks

\* the text before the first listing
Preambles == {"", "\n", "Google Search Results for 'fitness'\n"}

RECURSIVE Join(_)
Join(chunks) ==
    IF chunks = <<>> THEN ""
    ELSE IF Len(chunks) = 1 THEN chunks[1]
    ELSE chunks[1] \o "\n" \o Join(Tail(chunks))

\* a listing whose number has one digit more than int() converts
LongNumberChunk == Repeat("9", int_max_str_digits + 1) \o ". x"

\* the dumps extract_data_to_csv is called on directly
Dumps ==
    {p \o Join(cs) : p \in Preambles,
                     cs \in UNION {[1..n -> ChunkMenu] : n \in 0..MaxChunks}}
    \cup {LongNumberChunk}

\* items the search API returns
ItemMenu ==
    { [title |-> Some("Jane Doe (@janedoe)"), link |-> Some("https://instagram.com/janedoe"),
       snippet |-> Some("Lifestyle blogger"),
       pagemap |-> Some([person |-> Some([followers |-> Some("10K"), following |-> Some("200"),
                                          interactioncount |-> Some("150")]),
                         og_description |-> Some("blog")])],
      [title |-> None, link |-> Some("https://x.co/t"),
       snippet |-> Some("Top list:\n1. Run (@run) 2M"),
       pagemap |-> Some([person |-> Some([followers |-> None, following |-> Some("7"),
                                          interactioncount |-> None]),
                         og_description |-> None])] }

\* the responses of one request: the items (None without an 'items' key) and
\* whether queries announces a next page
Responses ==
    [items : {None} \cup {Some(is) : is \in UNION {[1..n -> ItemMenu] : n \in 0..MaxItems}},
     nextPage : BOOLEAN]

\* every string of at most n characters of the alphabet A
RECURSIVE StringsOver(_, _)
StringsOver(A, n) ==
    IF n = 0 THEN {""}
    ELSE LET P == StringsOver(A, n - 1)
         IN  P \cup {q \o c : q \in {x \in P : Len(x) = n - 1}, c \in A}

\* every concatenation of at most n of the fragments F
RECURSIVE Concats(_, _)
Concats(F, n) ==
    IF n = 0 THEN {""}
    ELSE LET P == Concats(F, n - 1)
         IN  P \cup {q \o f : q \in P, f \in F}

CountAlphabet == {"1", "5", ".", "K", "M", "k", "m", " ", "-", "x"}

\* the arguments of convert_to_numeric: None and the short strings
CountInputs == {None} \cup {Some(t) : t \in StringsOver(CountAlphabet, MaxCountLen)}

EmailFragments == {"jane", "@yahoo.com", "@Example.com", "gmail.com", "...", " "}

\* the chunks the loop body is run on
EmailChunks == {c \in Concats(EmailFragments, MaxParts) : Strip(c) # ""}

-----------------------------------------------------------------------------
(* State.                                                                  *)
(*   pc              position in search_and_save_pages / extract_data_to_csv *)
(*   input_text      the text of the file extract_data_to_csv reads        *)
(*                   (all_results_path when the search assembles it)       *)
(*   content, results, extracted_items   the locals of extract_data_to_csv *)
(*   idx             index of the running for loop                         *)
(*   outfile         the rows written to the output file                   *)
(*   raised          the exception that left the function, "" when none    *)
(*   page, result_count   the locals of search_and_save_pages              *)
(*   item_numbers    the values global_item_number has taken               *)
(*   arg, ret        argument and result of a function called on its own   *)

Idle ==
    /\ input_text = "" /\ content = "" /\ results = <<>> /\ idx = 0
    /\ extracted_items = <<>> /\ outfile = <<>> /\ raised = ""
    /\ page = 0 /\ result_count = 0 /\ item_numbers = <<>>

Init == pc = "start" /\ Idle /\ arg = None /\ ret = None

\* extract_data_to_csv(input_file, output_file) called on an existing dump
CallExtract(d) ==
    /\ pc = "start"
    /\ input_text' = d
    /\ pc' = "extract"
    /\ UNCHANGED <<content, results, idx, extracted_items, outfile, raised,
                   page, result_count, item_numbers, arg, ret>>

\* search_and_save_pages up to the loop over the pages: the title lines of
\* the combined file, result_count = 0
SearchOpen ==
    /\ pc = "start"
    /\ input_text' = "Google Search Results for '" \o search_query \o "'\n"
                     \o Repeat("=", RuleWidth) \o "\n\n"
    /\ result_count' = 0
    /\ page' = 1
    /\ pc' = "search_page"
    /\ UNCHANGED <<content, results, idx, extracted_items, outfile, raised,
                   item_numbers, arg, ret>>

\* one iteration of the loop over the pages with a successful request: the
\* page is formatted and appended to the combined file (the page's own file
\* is not part of the state); the loop ends after num_pages pages or when
\* the response announces no next page, and extract_data_to_csv is called
FetchPage(r) ==
    /\ pc = "search_page"
    /\ page <= NumPages
    /\ input_text' = input_text \o PageContent(page, r.items, result_count)
    /\ result_count' = IF r.items # None THEN result_count + Len(r.items[1])
                       ELSE result_count
    /\ item_numbers' = IF r.items # None
                       THEN item_numbers \o [i \in 1..Len(r.items[1]) |->
                                               global_item_number(result_count, i)]
                       ELSE item_numbers
    /\ page' = page + 1
    /\ pc' = IF ~r.nextPage \/ page = NumPages THEN "extract" ELSE "search_page"
    /\ UNCHANGED <<content, results, idx, extracted_items, outfile, raised, arg, ret>>

\* the request raises RequestException: the loop is left
FetchFails ==
    /\ pc = "search_page"
    /\ page <= NumPages
    /\ pc' = "extract"
    /\ UNCHANGED <<input_text, content, results, idx, extracted_items, outfile,
                   raised, page, result_count, item_numbers, arg, ret>>

\* os.makedirs, open(input_file), safe_open_write(output_file) succeed
OpenFiles ==
    /\ pc = "extract"
    /\ outfile' = <<>>
    /\ pc' = "header"
    /\ UNCHANGED <<input_text, content, results, idx, extracted_items, raised,
                   page, result_count, item_numbers, arg, ret>>

\* one of them fails: the OSError is logged and raised again
OpenFails ==
    /\ pc = "extract"
    /\ raised' = "OSError"
    /\ pc' = "raised"
    /\ UNCHANGED <<input_text, content, results, idx, extracted_items, outfile,
                   page, result_count, item_numbers, arg, ret>>

\* writer.writeheader()
WriteHeader ==
    /\ pc = "header"
    /\ outfile' = Append(outfile, fieldnames)
    /\ pc' = "read"
    /\ UNCHANGED <<input_text, content, results, idx, extracted_items, raised,
                   page, result_count, item_numbers, arg, ret>>

\* content = infile.read(); results = re.split(...); extracted_items = []
ReadAndSplit ==
    /\ pc = "read"
    /\ content' = input_text
    /\ results' = Split(input_text)
    /\ extracted_items' = <<>>
    /\ idx' = 1
    /\ pc' = "loop"
    /\ UNCHANGED <<input_text, outfile, raised, page, result_count, item_numbers,
                   arg, ret>>

\* an iteration on a blank chunk: continue
SkipBlank ==
    /\ pc = "loop"
    /\ idx <= Len(results)
    /\ Strip(results[idx]) = ""
    /\ idx' = idx + 1
    /\ UNCHANGED <<pc, input_text, content, results, extracted_items, outfile,
                   raised, page, result_count, item_numbers, arg, ret>>

\* the end of an iteration with the sort inside the loop: the list is sorted
\* after every append
EndIteration_sorting(x) ==
    IF x.exc = ""
    THEN /\ extracted_items' = sort_reverse(Append(extracted_items, x.data))
         /\ idx' = idx + 1
         /\ UNCHANGED <<pc, raised>>
    ELSE /\ raised' = x.exc
         /\ pc' = "raised"
         /\ UNCHANGED <<extracted_items, idx>>

\* the end of an iteration, x being its record and exception: the record is
\* appended, unless a statement raised, which the except clause logs and
\* raises again
EndIteration(x) ==
    IF x.exc = ""
    THEN /\ extracted_items' = Append(extracted_items, x.data)
         /\ idx' = idx + 1
         /\ UNCHANGED <<pc, raised>>
    ELSE /\ raised' = x.exc
         /\ pc' = "raised"
         /\ UNCHANGED <<extracted_items, idx>>

\* an iteration on any other chunk
ProcessChunk ==
    /\ pc = "loop"
    /\ idx <= Len(results)
    /\ Strip(results[idx]) # ""
    /\ EndIteration(ExtractData(results[idx]))
    /\ UNCHANGED <<input_text, content, results, outfile, page, result_count,
                   item_numbers, arg, ret>>

\* the loop is over: extracted_items.sort(..., reverse=True)
SortItems ==
    /\ pc = "loop"
    /\ idx > Len(results)
    /\ extracted_items' = sort_reverse(extracted_items)
    /\ idx' = 1
    /\ pc' = "write"
    /\ UNCHANGED <<input_text, content, results, outfile, raised, page,
                   result_count, item_numbers, arg, ret>>

\* for data in extracted_items: writer.writerow(data)
WriteRow ==
    /\ pc = "write"
    /\ idx <= Len(extracted_items)
    /\ outfile' = Append(outfile, Row(extracted_items[idx]))
    /\ idx' = idx + 1
    /\ UNCHANGED <<pc, input_text, content, results, extracted_items, raised,
                   page, result_count, item_numbers, arg, ret>>

\* the files are closed and output_file is returned
Finish ==
    /\ pc = "write"
    /\ idx > Len(extracted_items)
    /\ pc' = "done"
    /\ UNCHANGED <<input_text, content, results, idx, extracted_items, outfile,
                   raised, page, result_count, item_numbers, arg, ret>>

Next ==
    \/ \E d \in Dumps : CallExtract(d)
    \/ SearchOpen
    \/ \E r \in Responses : FetchPage(r)
    \/ FetchFails
    \/ OpenFiles
    \/ OpenFails
    \/ WriteHeader
    \/ ReadAndSplit
    \/ SkipBlank
    \/ ProcessChunk
    \/ SortItems
    \/ WriteRow
    \/ Finish

Spec == Init /\ [][Next]_vars

-----------------------------------------------------------------------------
(* convert_to_numeric on its own *)

InitNum == pc = "num_call" /\ Idle /\ arg \in CountInputs /\ ret = None

CallConvert ==
    /\ pc = "num_call"
    /\ ret' = Some(convert_to_numeric(arg))
    /\ pc' = "num_ret"
    /\ UNCHANGED <<input_text, content, results, idx, extracted_items, outfile,
                   raised, page, result_count, item_numbers, arg>>

NextNum == CallConvert

SpecNum == InitNum /\ [][NextNum]_vars

(* The loop body on its own, run on one chunk: ret holds the record, the   *)
(* index of the email pattern that matched (0 when none did), the text it  *)
(* matched and the local variable email handed to validate_email.          *)

InitChunk == pc = "chunk_call" /\ Idle /\ arg \in {Some(c) : c \in EmailChunks} /\ ret = None

LoopBodyResult(x, pattern, result) ==
    [exc     |-> x.exc,
     data    |-> x.data,
     pattern |-> pattern,
     matched |-> IF pattern = 0 THEN None ELSE email_search(pattern, result),
     email   |-> IF pattern = 0 THEN None ELSE Some(email_candidate(pattern, result))]

CallLoopBody ==
    /\ pc = "chunk_call"
    /\ ret' = Some(LoopBodyResult(ExtractData(arg[1]), first_email_pattern(arg[1]), arg[1]))
    /\ pc' = "chunk_ret"
    /\ UNCHANGED <<input_text, content, results, idx, extracted_items, outfile,
                   raised, page, result_count, item_numbers, arg>>

NextChunk == CallLoopBody

SpecChunk == InitChunk /\ [][NextChunk]_vars

-----------------------------------------------------------------------------
(* safe_open_write on its own, used as "with safe_open_write(path) as f:   *)
(* body".  arg is the path; ret holds the state of the generator and of     *)
(* the with statement around it:                                            *)
(*   attempt     the loop variable                                          *)
(*   phase       "enter" while __enter__ runs the generator to its first    *)
(*               yield, "throw" once __exit__ has thrown the exception of   *)
(*               the body into it                                           *)
(*   at          the yield the generator is suspended at: "file", "alt"     *)
(*   opens       the paths of the calls of open, failed ones included       *)
(*   open_files  the paths of the files open now                            *)
(*   yielded     the paths of the files yielded                             *)
(*   body_runs   how often the body was entered                             *)
(*   body_exc    the exception the body raised, "" when none                *)
(*   result      what the with statement ends with: "ok" or the exception   *)
(*               the caller gets; "" while it runs                          *)

max_retries == 3

\* the index of the last c in s, 0 when there is none
LastIndex(s, c) == Max({0} \cup {i \in 1..Len(s) : Ch(s, i) = c})

\* where the suffix of the file name starts: at its last period, unless the
\* name starts with it; behind the end when there is no suffix
SuffixStart(filepath, slash, dot) == IF dot > slash + 1 THEN dot ELSE Len(filepath) + 1

\* path.with_stem(f"{path.stem}_{timestamp}") with the suffix starting at cut
WithStem(filepath, cut, timestamp) ==
    SubSeq(filepath, 1, cut - 1) \o "_" \o timestamp \o SubSeq(filepath, cut, Len(filepath))

\* create_alternative_filename(filepath), timestamp being the value of
\* time.strftime("%Y%m%d_%H%M%S")
create_alternative_filename(filepath, timestamp) ==
    WithStem(filepath,
             SuffixStart(filepath, LastIndex(filepath, "/"), LastIndex(filepath, ".")),
             timestamp)

\* the paths safe_open_write is called with and the times of the clock
OutputPaths == {"out/csv_results/a.csv", "out/all_results_a.txt", "out/v1.2/noext"}

Timestamps == {"20250101_093000", "20251231_235959"}

InitOpen ==
    /\ pc = "sow_open"
    /\ Idle
    /\ arg \in {Some(p) : p \in OutputPaths}
    /\ ret = Some([attempt |-> 0, phase |-> "enter", at |-> "", opens |-> <<>>,
                   open_files |-> {}, yielded |-> <<>>, body_runs |-> 0,
                   body_exc |-> "", result |-> ""])

\* the generator yields the file f: in __enter__ the body gets it; after
\* __exit__ has thrown into the generator, a yield makes __exit__ raise
\* RuntimeError("generator didn't stop after throw()")
Yield(r, f, at) ==
    [r EXCEPT !.yielded = Append(@, f), !.at = at,
              !.result = IF r.phase = "throw" THEN "RuntimeError" ELSE @]

\* file = open(path, ...) succeeds; yield file
OpenSucceeds ==
    /\ pc = "sow_open"
    /\ ret' = Some(Yield([ret[1] EXCEPT !.opens = Append(@, arg[1]),
                                        !.open_files = @ \cup {arg[1]}],
                         arg[1], "file"))
    /\ pc' = IF ret[1].phase = "enter" THEN "sow_body" ELSE "sow_ret"
    /\ UNCHANGED <<input_text, content, results, idx, extracted_items, outfile,
                   raised, page, result_count, item_numbers, arg>>

\* the except PermissionError clause: the next attempt after the sleep, or on
\* the last attempt the alternative filename
Retry(r) ==
    /\ ret' = Some([r EXCEPT !.attempt = IF @ < max_retries - 1 THEN @ + 1 ELSE @])
    /\ pc' = IF r.attempt < max_retries - 1 THEN "sow_open" ELSE "sow_alt"

\* open(path, ...) raises PermissionError
OpenDenied ==
    /\ pc = "sow_open"
    /\ Retry([ret[1] EXCEPT !.opens = Append(@, arg[1])])
    /\ UNCHANGED <<input_text, content, results, idx, extracted_items, outfile,
                   raised, page, result_count, item_numbers, arg>>

\* open(path, ...) raises another exception: except Exception logs it and
\* raises it again
OpenRaises ==
    /\ pc = "sow_open"
    /\ ret' = Some([ret[1] EXCEPT !.opens = Append(@, arg[1]), !.result = "OSError"])
    /\ pc' = "sow_ret"
    /\ UNCHANGED <<input_text, content, results, idx, extracted_items, outfile,
                   raised, page, result_count, item_numbers, arg>>

\* with open(new_path, ...) as alt_file: yield alt_file
AltOpenSucceeds(new_path) ==
    /\ pc = "sow_alt"
    /\ ret' = Some(Yield([ret[1] EXCEPT !.opens = Append(@, new_path),
                                        !.open_files = @ \cup {new_path}],
                         new_path, "alt"))
    /\ pc' = IF ret[1].phase = "enter" THEN "sow_body" ELSE "sow_ret"
    /\ UNCHANGED <<input_text, content, results, idx, extracted_items, outfile,
                   raised, page, result_count, item_numbers, arg>>

\* open(new_path, ...) raises e inside the except clause: e propagates
AltOpenRaises(new_path, e) ==
    /\ pc = "sow_alt"
    /\ ret' = Some([ret[1] EXCEPT !.opens = Append(@, new_path), !.result = e])
    /\ pc' = "sow_ret"
    /\ UNCHANGED <<input_text, content, results, idx, extracted_items, outfile,
                   raised, page, result_count, item_numbers, arg>>

\* the body ends without an exception: the generator is resumed, closes the
\* file it yielded (finally: file.close(), or the end of the with of
\* alt_file) and returns
BodyReturns ==
    /\ pc = "sow_body"
    /\ ret' = Some([ret[1] EXCEPT !.body_runs = @ + 1,
                                  !.open_files = @ \ {ret[1].yielded[Len(ret[1].yielded)]},
                                  !.result = "ok"])
    /\ pc' = "sow_ret"
    /\ UNCHANGED <<input_text, content, results, idx, extracted_items, outfile,
                   raised, page, result_count, item_numbers, arg>>

\* the exception e of the body arrives at the yield, the file being closed
\* by then: at "yield file" a PermissionError is caught by the except
\* PermissionError clause of the attempt; every other exception, and every
\* exception at "yield alt_file", leaves the generator
Thrown(r, e) ==
    IF r.at = "file" /\ e = "PermissionError"
    THEN Retry([r EXCEPT !.phase = "throw"])
    ELSE /\ ret' = Some([r EXCEPT !.result = e])
         /\ pc' = "sow_ret"

\* the body raises e: __exit__ throws it into the generator
BodyRaises(e) ==
    /\ pc = "sow_body"
    /\ Thrown([ret[1] EXCEPT !.body_runs = @ + 1, !.body_exc = e,
                             !.open_files = @ \ {ret[1].yielded[Len(ret[1].yielded)]}],
              e)
    /\ UNCHANGED <<input_text, content, results, idx, extracted_items, outfile,
                   raised, page, result_count, item_numbers, arg>>

\* a generator left suspended at a yield is destroyed: GeneratorExit at the
\* yield closes the file
GeneratorFinalized ==
    /\ pc = "sow_ret"
    /\ ret[1].open_files # {}
    /\ ret' = Some([ret[1] EXCEPT !.open_files = {}])
    /\ UNCHANGED <<pc, input_text, content, results, idx, extracted_items, outfile,
                   raised, page, result_count, item_numbers, arg>>

NextOpen ==
    \/ OpenSucceeds
    \/ OpenDenied
    \/ OpenRaises
    \/ \E t \in Timestamps : AltOpenSucceeds(create_alternative_filename(arg[1], t))
    \/ \E t \in Timestamps, e \in {"PermissionError", "OSError"} :
          AltOpenRaises(create_alternative_filename(arg[1], t), e)
    \/ BodyReturns
    \/ \E e \in {"PermissionError", "ValueError"} : BodyRaises(e)
    \/ GeneratorFinalized

SpecOpen == InitOpen /\ [][NextOpen]_vars

-----------------------------------------------------------------------------
(* Properties *)

\* the data rows of the output file (the first row is the header)
DataRows == SubSeq(outfile, 2, Len(outfile))

\* the column of a field in a row
Col(name) == CHOOSE k \in 1..Len(fieldnames) : fieldnames[k] = name

\* the rows of the chunks in the order of the input text
RECURSIVE RowsInInputOrder(_)
RowsInInputOrder(chunks) ==
    IF chunks = <<>> THEN <<>>
    ELSE (IF Strip(chunks[1]) = "" THEN <<>> ELSE <<Row(ExtractData(chunks[1]).data)>>)
         \o RowsInInputOrder(Tail(chunks))

\* the rows of a sequence that carry the key v
WithKey(rows, v) ==
    LET HasKey(r) == r[Col("follower_count_numeric")] = v
    IN  SelectSeq(rows, HasKey)

\* the positions of the lines of s that start with an integer and a period
MarkerLines(s) ==
    {i \in 1..Len(s) :
        /\ (i = 1 \/ Ch(s, i - 1) = "\n")
        /\ \E j \in (i + 1)..Len(s) :
              /\ Ch(s, j) = "."
              /\ \A k \in i..(j - 1) : Ch(s, k) \in Digit}

\* C1: the rows written are in descending order of follower_count_numeric:
\* no row has a smaller count than a later one, a row displaying 2M comes
\* before every row displaying 500K, and no row with count 0 comes before a
\* row with a positive count.
C1_RowsDescending ==
    \A i, j \in 2..Len(outfile) :
        i < j =>
            /\ ~NumLess(outfile[i][Col("follower_count_numeric")],
                        outfile[j][Col("follower_count_numeric")])
            /\ ~(outfile[i][Col("followers")] = Some("500K")
                 /\ outfile[j][Col("followers")] = Some("2M"))
            /\ ~(outfile[i][Col("follower_count_numeric")] = Zero
                 /\ outfile[j][Col("follower_count_numeric")].m > 0)

\* a finished run whose input has a 500K listing and a listing without
\* stats before a 2M listing, and whose output has them as 2M, 500K, none
C1_Witness ==
    /\ pc = "done"
    /\ \E x, y, z \in 1..Len(results) :
          /\ x < z /\ y < z
          /\ Contains(results[x], "500K Followers")
          /\ ~Contains(results[y], "Followers")
          /\ Contains(results[z], "2M Followers")
    /\ \E i, j, k \in 2..Len(outfile) :
          /\ i < j /\ j < k
          /\ outfile[i][Col("followers")] = Some("2M")
          /\ outfile[j][Col("followers")] = Some("500K")
          /\ outfile[k][Col("followers")] = None

\* C2: the ranking is stable: when the run is finished, the rows with any
\* one follower count are the rows of the chunks with that count, in the
\* order of the chunks in the input text.
C2_StableRanking ==
    pc = "done" =>
        \A i \in 2..Len(outfile) :
            WithKey(DataRows, outfile[i][Col("follower_count_numeric")])
              = WithKey(RowsInInputOrder(results), outfile[i][Col("follower_count_numeric")])

\* a finished run in which the sort moved rows and two different rows with
\* the same positive count, and two different rows with count 0, were written
C2_Witness ==
    /\ pc = "done"
    /\ DataRows # RowsInInputOrder(results)
    /\ \E i, j \in 2..Len(outfile) :
          /\ i < j
          /\ outfile[i][Col("followers")] = Some("500K")
          /\ outfile[j][Col("followers")] = Some("0.5M")
    /\ \E i, j \in 2..Len(outfile) :
          /\ i < j
          /\ outfile[i][Col("follower_count_numeric")] = Zero
          /\ outfile[j][Col("follower_count_numeric")] = Zero
          /\ outfile[i] # outfile[j]

\* C3: segmentation gives one record per line that starts with an integer
\* and a period, and so none for a text without such a line.
C3_OneRecordPerMarkerLine ==
    pc \in {"write", "done"} =>
        Len(extracted_items) = Cardinality(MarkerLines(content))

\* e is an address local@domain.tld: a local part, "@", a domain, and a
\* period followed by two or more letters that end it
IsAddress(e) ==
    \E a \in 2..Len(e), d \in 1..Len(e) :
        /\ a + 1 < d /\ d + 2 <= Len(e)
        /\ Ch(e, a) = "@" /\ Ch(e, d) = "."
        /\ \A k \in 1..(a - 1) : Ch(e, k) \in LocalClass
        /\ \A k \in (a + 1)..(d - 1) : Ch(e, k) \in DomainClass
        /\ \A k \in (d + 1)..Len(e) : Ch(e, k) \in Letter

\* C4: the email of a record is null or an address local@domain.tld without
\* any of example.com, test.com, domain.com in its lower-case form, whichever
\* pattern matched and whether or not gmail.com was appended; a candidate
\* that reads jane@example.com in lower case gives a null email.
C4_EmailNullOrValid ==
    pc = "chunk_ret" =>
        /\ ret[1].data.email # None =>
              /\ IsAddress(ret[1].data.email[1])
              /\ \A d \in {"example.com", "test.com", "domain.com"} :
                    ~Contains(Lower(ret[1].data.email[1]), d)
        /\ (ret[1].email # None /\ Lower(ret[1].email[1]) = "jane@example.com")
              => ret[1].data.email = None

\* the loop body has run on the chunk jane@Example.com: the first pattern
\* matched the whole of it and the email of the record is null
C4_Witness ==
    /\ pc = "chunk_ret"
    /\ arg = Some("jane@Example.com")
    /\ ret[1].pattern = 1
    /\ ret[1].matched = Some("jane@Example.com")
    /\ ret[1].data.email = None

\* C5: on a chunk without a complete address in which an ellipsis, a local
\* part and gmail.com make the third pattern match, the email of the record
\* is the local part, "@" and gmail.com.
C5_TruncatedReconstructed ==
    (pc = "chunk_ret" /\ ~Contains(arg[1], "@") /\ Contains(arg[1], "gmail.com")
        /\ ret[1].pattern = 3)
        => ret[1].data.email = Some(ret[1].matched[1] \o "@gmail.com")

\* the stats line of a listing
StatsLine(t) ==
    t.followers \o " Followers, " \o t.following \o " Following, " \o t.posts \o " Posts"

\* the record of a listing with the given description
LayoutRecord(t, description) ==
    [number |-> Some(t.n), name |-> Some(t.name), username |-> Some(t.handle),
     url |-> Some(t.url), email |-> None, followers |-> Some(t.followers),
     following |-> Some(t.following), posts |-> Some(t.posts),
     description |-> Some(description), follower_count_numeric |-> t.numeric]

\* C6 (as the code has it): a chunk in the documented layout yields its
\* number, trimmed name, handle without "@", URL, the three counts as
\* displayed and the value of the follower count, and the description is the
\* text from the Description: marker up to the Meta Description: marker,
\* trimmed, which includes the stats line standing between them.
C6_LayoutExtracted ==
    \A t \in LayoutCases :
        (pc = "loop" /\ idx > 1 /\ results[idx - 1] = Layout(t)) =>
            extracted_items[Len(extracted_items)]
                = LayoutRecord(t, t.desc \o "\n   " \o StatsLine(t))

\* the iteration on the Jane Doe listing is over
C6_Witness ==
    /\ pc = "loop"
    /\ idx > 1
    /\ results[idx - 1] = "1. Jane Doe (@janedoe)\n   URL: https://instagram.com/janedoe\n   Description: Lifestyle blogger\n   10K Followers, 200 Following, 150 Posts\n   Meta Description: blog"
    /\ extracted_items[Len(extracted_items)].name = Some("Jane Doe")
    /\ extracted_items[Len(extracted_items)].follower_count_numeric = [m |-> 1, e |-> 4]
    /\ extracted_items[Len(extracted_items)].description
          = Some("Lifestyle blogger\n   10K Followers, 200 Following, 150 Posts")

\* C6 as stated: the same record with a description that stops before the
\* stats line ("Lifestyle blogger" for the Jane Doe listing).
C6_DescriptionStopsAtStats ==
    \A t \in LayoutCases :
        (pc = "loop" /\ idx > 1 /\ results[idx - 1] = Layout(t)) =>
            extracted_items[Len(extracted_items)] = LayoutRecord(t, t.desc)

\* n is a decimal numeral: digits with at most one point among them
IsNumeral(n) ==
    /\ \A k \in 1..Len(n) : Ch(n, k) \in Digit \cup {"."}
    /\ Cardinality({k \in 1..Len(n) : Ch(n, k) = "."}) <= 1
    /\ \E k \in 1..Len(n) : Ch(n, k) \in Digit

\* the number of digits behind the point of a numeral
FractionDigits(n) ==
    IF \E k \in 1..Len(n) : Ch(n, k) = "."
    THEN Len(n) - (CHOOSE k \in 1..Len(n) : Ch(n, k) = ".")
    ELSE 0

\* the value of a numeral
NumeralValue(n) == Norm(ToInt(Remove(n, ".")), 0 - FractionDigits(n))

\* s without its last character
Most(s) == SubSeq(s, 1, Len(s) - 1)

\* a numeral with an optional sign
IsSignedNumeral(n) ==
    IsNumeral(n) \/ (Ch(n, 1) \in {"+", "-"} /\ IsNumeral(Tail(n)))

\* u is a number, or a number followed by K or by M
IsSuffixForm(u) ==
    \/ IsSignedNumeral(u)
    \/ Ch(u, Len(u)) \in {"K", "M"} /\ IsSignedNumeral(Strip(Most(u)))

\* the cases of convert_to_numeric on the trimmed upper-case text u of a
\* string, val being the result
SuffixCases(u, val) ==
    /\ IsNumeral(u) => val = NumeralValue(u)
    /\ (Ch(u, Len(u)) = "K" /\ IsNumeral(Most(u))) => val = Scale(NumeralValue(Most(u)), 3)
    /\ (Ch(u, Len(u)) = "M" /\ IsNumeral(Most(u))) => val = Scale(NumeralValue(Most(u)), 6)
    /\ (Contains(u, "K") /\ Contains(u, "M")) => val = Zero
    /\ u \in {"K", "M"} => val = Zero
    /\ Contains(u, "X") => val = Zero

\* C7 (as the code has it): convert_to_numeric never raises; null and the
\* empty string give 0; after trimming and upper-casing, a numeral gives its
\* value, a numeral followed by K or M gives 1000 or 1000000 times its
\* value, a text with both K and M, a suffix alone or a text with another
\* letter gives 0, and the result is not negative for a string the stats
\* pattern accepts.  A K is removed wherever it stands: 1K5 gives 15000 and
\* K1 gives 1000.
C7_ConvertToNumeric ==
    pc = "num_ret" =>
        /\ ret[1].exc = ""
        /\ arg \in {None, Some("")} => ret[1].val = Zero
        /\ arg # None => SuffixCases(Upper(Strip(arg[1])), ret[1].val)
        /\ (arg # None /\ CountToken(arg[1])) => ret[1].val.m >= 0
        /\ arg = Some("1K5") => ret[1].val = [m |-> 15, e |-> 3]
        /\ arg = Some("K1") => ret[1].val = [m |-> 1, e |-> 3]

\* convert_to_numeric has returned 1500 for "1.5k"
C7_Witness ==
    /\ pc = "num_ret"
    /\ arg = Some("1.5k")
    /\ ret[1] = [exc |-> "", val |-> [m |-> 15, e |-> 2]]

\* C7 as stated: a string that is neither a number nor a number followed by
\* K or M gives 0.
C7_OtherInputsZero ==
    (pc = "num_ret" /\ arg # None /\ ~IsSuffixForm(Upper(Strip(arg[1]))))
        => ret[1].val = Zero

\* the chunks that are not blank
NonBlank(chunks) == {i \in 1..Len(chunks) : Strip(chunks[i]) # ""}

\* the rows with the number n, and the chunks that start with n and a period
RowsNumbered(n) == {i \in 1..Len(DataRows) : DataRows[i][Col("number")] = Some(n)}

ChunksNumbered(n) == {i \in NonBlank(results) : At(results[i], 1, ToStr(n) \o ".")}

\* C8 (as the code has it): there is one row per chunk that is not blank,
\* each number is on as many rows as there are chunks starting with it, and
\* the global item numbers of a search are 1, 2, ... result_count without a
\* gap across the pages.
C8_OneRowPerChunk ==
    /\ item_numbers = [i \in 1..result_count |-> i]
    /\ pc = "done" =>
          /\ Len(DataRows) = Cardinality(NonBlank(results))
          /\ \A r \in 1..Len(DataRows) :
                DataRows[r][Col("number")] # None =>
                    Cardinality(RowsNumbered(DataRows[r][Col("number")][1]))
                        = Cardinality(ChunksNumbered(DataRows[r][Col("number")][1]))

\* a finished run on the dump of a search of two pages with items on the
\* second page, whose output has two rows with the same number
C8_Witness ==
    /\ pc = "done"
    /\ page > NumPages
    /\ result_count > MaxItems
    /\ item_numbers[result_count] = result_count
    /\ \E i, j \in 1..Len(DataRows) :
          /\ i < j
          /\ DataRows[i][Col("number")] # None
          /\ DataRows[i][Col("number")] = DataRows[j][Col("number")]

\* C8 as stated: no two rows of a finished run have the same number.
C8_NoDuplicateNumbers ==
    pc = "done" =>
        \A i, j \in 1..Len(DataRows) :
            (i < j /\ DataRows[i][Col("number")] # None)
                => DataRows[i][Col("number")] # DataRows[j][Col("number")]

\* C9: when the first pattern matches, the candidate handed to
\* validate_email is the matched address, unchanged.
C9_DirectMatchUnchanged ==
    (pc = "chunk_ret" /\ ret[1].pattern = 1) => ret[1].email = ret[1].matched

\* the record without any field
EmptyRecord ==
    [number |-> None, name |-> None, username |-> None, url |-> None,
     email |-> None, followers |-> None, following |-> None, posts |-> None,
     description |-> None, follower_count_numeric |-> Zero]

\* the records of the listings that are not well formed and of the title
\* line, each with the fields its text has
MalformedRecords ==
    { <<"4. No Title\n   URL: No URL\n   N/A Followers, N/A Following, N/A Posts",
        [EmptyRecord EXCEPT !.number = Some(4)]>>,
      <<"5. E (@e)\n   Description: mail jane@yahoo.com",
        [EmptyRecord EXCEPT !.number = Some(5), !.name = Some("E"),
                            !.username = Some("e"), !.email = Some("jane@yahoo.com"),
                            !.description = Some("mail jane@yahoo.com")]>>,
      <<"Google Search Results for 'fitness'", EmptyRecord>> }

\* C10: no field extraction raises: the only exception that leaves
\* extract_data_to_csv is that of opening the files, before any chunk is
\* read; every chunk that is not blank gets a record and a row; a field
\* without a match is null (0 for the count) and the other fields of the
\* chunk keep their values.
C10_FieldFailuresAbsorbed ==
    /\ pc = "raised" => (raised = "OSError" /\ results = <<>>)
    /\ pc \in {"write", "done"} => Len(extracted_items) = Cardinality(NonBlank(results))
    /\ pc = "done" => Len(DataRows) = Len(extracted_items)
    /\ \A c \in MalformedRecords :
          (pc = "loop" /\ idx > 1 /\ results[idx - 1] = c[1])
              => extracted_items[Len(extracted_items)] = c[2]

\* the rows of a list of records
RowsOf(items) == [i \in 1..Len(items) |-> Row(items[i])]

\* where the call stands, what has been read, extracted and written: the
\* header is written before the input is read; while the chunks are
\* extracted the file holds the header only and the list holds the records
\* of the chunks done, in input order; the data rows are rows of the list
\* as it is after the sort, which has a record for every chunk
OutputOrder ==
    /\ pc \in {"start", "search_page", "extract", "header"} => outfile = <<>>
    /\ pc = "read" => (outfile = <<fieldnames>> /\ content = "" /\ results = <<>>)
    /\ pc = "loop" =>
          /\ outfile = <<fieldnames>>
          /\ content = input_text
          /\ RowsOf(extracted_items) = RowsInInputOrder(SubSeq(results, 1, idx - 1))
    /\ pc \in {"write", "done"} =>
          /\ content = input_text
          /\ Len(extracted_items) = Cardinality(NonBlank(results))
          /\ DataRows = SubSeq(RowsOf(extracted_items), 1, Len(outfile) - 1)

\* the steps that touch the list: the one step that starts the writing is
\* taken after the last chunk and sorts the list, and nothing changes the
\* list afterwards
SortStep ==
    /\ (pc' = "write" /\ pc # "write") =>
          /\ pc = "loop"
          /\ idx > Len(results)
          /\ extracted_items' = sort_reverse(extracted_items)
          /\ outfile' = outfile
    /\ pc \in {"write", "done"} => extracted_items' = extracted_items

\* C11 (as the code has it): the header row is written right after the
\* files are opened, before the input is read; no data row is written until
\* the input has been read in full, every chunk has been extracted and the
\* sort has been applied; the sort is applied once, after the last chunk.
C11_RowsAfterSort == [](OutputOrder) /\ [][SortStep]_vars

\* the first data row of a list that the sort has reordered is written
C11_Witness ==
    /\ pc = "write"
    /\ idx = 2
    /\ Len(outfile) = 2
    /\ RowsOf(extracted_items) # RowsInInputOrder(results)
    /\ outfile[2] = Row(extracted_items[1])

\* C11 as stated: nothing, the header row included, is in the output file
\* before the input is read, the chunks are extracted and the list is sorted.
C11_NothingWrittenBeforeSort == outfile # <<>> => pc \in {"write", "done"}

\* how often p is in the sequence q
Count(q, p) == Cardinality({i \in 1..Len(q) : q[i] = p})

\* C12: when the with statement is over, the body has run at most once on
\* at most one file; the original path was opened at most max_retries times,
\* and another path only after max_retries calls for the original one; after
\* a normal end the body has run once and no file is open; an exception of
\* the body reaches the caller as it is, nothing having been opened or
\* yielded after the file the body had.
C12_BodyOnceOnOneFile ==
    pc = "sow_ret" =>
        /\ ret[1].body_runs <= 1
        /\ Len(ret[1].yielded) <= 1
        /\ Count(ret[1].opens, arg[1]) <= max_retries
        /\ \A i \in 1..Len(ret[1].opens) : ret[1].opens[i] # arg[1] => i > max_retries
        /\ ret[1].result = "ok" => (ret[1].body_runs = 1 /\ ret[1].open_files = {})
        /\ ret[1].body_exc # "" =>
              /\ ret[1].result = ret[1].body_exc
              /\ ret[1].opens[Len(ret[1].opens)] = ret[1].yielded[1]
              /\ ret[1].open_files = {}

====
